---- MODULE Spec2Model ----
(***************************************************************************)
(* Model of ssm_cache/cache.py: Refreshable (the max_age refresh policy),  *)
(* SSMParameter (one cached key), SSMParameterGroup (keys fetched in       *)
(* batches of 10) and SSMParameter.refresh_on_error (refresh and retry).   *)
(*                                                                         *)
(* The remote store (boto3's ssm client) is the environment: what it       *)
(* answers to a call is an input of the handler that makes the call.       *)
(* The WithDecryption flag only travels in the request and is not modelled.*)
(***************************************************************************)
EXTENDS Integers, Sequences, FiniteSets, TLC

VARIABLES
    now,     \* datetime.utcnow(), in whole ticks
    objs,    \* the SSMParameter objects, in creation order
    group,   \* the one SSMParameterGroup
    last,    \* what the last handler was given, did and returned
    thr      \* the threads inside p.value at the same time, each with its
             \* position and its local variables (<<>>: no thread is)

vars == <<now, objs, group, last, thr>>

\* ------------------------------------------------------------------ bounds
MaxTime == 3       \* the clock stops here
MaxAge == 2        \* largest max_age tried
MaxVer == 2        \* the store answers a known name with a value in 1..MaxVer
MaxObjs == 2       \* parameters made, and names used, in the group scenarios
MaxMembers == 25   \* largest group in the batching scenarios
MaxUnknown == 2    \* most names the store rejects in a batching scenario

\* ---------------------------------------------------------------- constants
NoneV == -1        \* Python's None (for _value, _max_age, _last_refresh_time)
BatchSize == 10    \* _batch(names, 10)

\* ------------------------------------------------------------- small helpers
Min(a, b) == IF a < b THEN a ELSE b

Range(s) == {s[i] : i \in DOMAIN s}

\* ----------------------------------------------------------------- Refreshable
\* `not self._max_age`: None and 0 are both falsy
NoMaxAge(max_age) == max_age = NoneV \/ max_age = 0

\* timedelta(seconds=max_age or 0)
MaxAgeDelta(max_age) == IF NoMaxAge(max_age) THEN 0 ELSE max_age

\* Faulty variant: the comparison is the wrong way round
ShouldRefreshInverted(max_age, lrt, t) ==
    IF NoMaxAge(max_age) THEN FALSE
    ELSE IF lrt = NoneV THEN TRUE
    ELSE t < lrt + MaxAgeDelta(max_age)

\* Faulty variant: the window ends one tick early
ShouldRefreshInclusive(max_age, lrt, t) ==
    IF NoMaxAge(max_age) THEN FALSE
    ELSE IF lrt = NoneV THEN TRUE
    ELSE t >= lrt + MaxAgeDelta(max_age)

\* Faulty variant: the never-fetched test comes first
ShouldRefreshFirstAlways(max_age, lrt, t) ==
    IF lrt = NoneV THEN TRUE
    ELSE IF NoMaxAge(max_age) THEN FALSE
    ELSE t > lrt + MaxAgeDelta(max_age)

\* Refreshable._should_refresh, evaluated at time t
ShouldRefresh(max_age, lrt, t) ==
    IF NoMaxAge(max_age) THEN FALSE
    ELSE IF lrt = NoneV THEN TRUE
    ELSE t > lrt + MaxAgeDelta(max_age)

\* Faulty variant: the last, shorter slice is dropped
BatchFullOnly(s, n) ==
    [b \in 1..(Len(s) \div n) |-> SubSeq(s, (b - 1) * n + 1, (b - 1) * n + n)]

\* _batch(iterable, n): slices [ndx : min(ndx + n, l)] for ndx in range(0, l, n)
Batch(s, n) ==
    LET l == Len(s)
        cnt == (l + n - 1) \div n
    IN  [b \in 1..cnt |-> SubSeq(s, (b - 1) * n + 1, Min((b - 1) * n + n, l))]

\* ------------------------------------------------------------ the remote store
\* An environment e of one handler run: e.resp[k] is what the store holds for
\* name k during the run (0: the store does not know k, else its value),
\* e.failAt is the remote call of the run that fails in transport (0: none),
\* e.dt the ticks that pass while the run waits for the store.
\* one remote call, as it appears in last.calls
Call(api, names, failed) == [api |-> api, names |-> names, failed |-> failed]

\* ------------------------------------------------------------ SSMParameterGroup
\* SSMParameterGroup.__init__
NewGroup(max_age) ==
    [max_age |-> max_age, lrt |-> NoneV, names |-> <<>>, obj |-> <<>>]

\* SSMParameter.__init__ (param_name is non-empty here)
NewParameter(name, max_age) ==
    [name |-> name, value |-> NoneV, max_age |-> max_age, lrt |-> NoneV,
     grouped |-> FALSE]

\* Faulty variant: the parameter is not told of its group
NewMemberUnowned(name) == NewParameter(name, NoneV)

\* parameter = SSMParameter(name); parameter._group = self
NewMember(name) == [NewParameter(name, NoneV) EXCEPT !.grouped = TRUE]

\* self._parameters[parameter._name] = parameter: a dict keeps a key's first
\* position when the key is assigned again
DictSet(g, name, i) ==
    IF \E j \in DOMAIN g.names : g.names[j] = name
    THEN [g EXCEPT !.obj = [j \in DOMAIN g.names |->
                               IF g.names[j] = name THEN i ELSE g.obj[j]]]
    ELSE [g EXCEPT !.names = Append(@, name), !.obj = Append(@, i)]

\* names = [p._name for p in six.itervalues(self._parameters)]
MemberNames(os, g) == [j \in DOMAIN g.obj |-> os[g.obj[j]].name]

\* response['InvalidParameters'] of one batch
InvalidOf(batch, e) == SelectSeq(batch, LAMBDA k : e.resp[k] = 0)

\* Faulty variant: a name the store rejects loses the value held for it
StoreItemsOrNone(os, g, batch, e) ==
    [i \in DOMAIN os |->
        LET mine == {d \in DOMAIN g.obj :
                        /\ g.obj[d] = i
                        /\ \E j \in DOMAIN batch : batch[j] = g.names[d]}
        IN  IF mine = {} THEN os[i]
            ELSE LET a == e.resp[g.names[CHOOSE d \in mine : TRUE]]
                 IN  [os[i] EXCEPT !.value = IF a = 0 THEN NoneV ELSE a]]

\* for item in response['Parameters']:
\*     self._parameters[item['Name']]._value = item['Value']
StoreItems(os, g, batch, e) ==
    [i \in DOMAIN os |->
        LET mine == {d \in DOMAIN g.obj :
                        /\ g.obj[d] = i
                        /\ \E j \in DOMAIN batch : batch[j] = g.names[d]
                        /\ e.resp[g.names[d]] # 0}
        IN  IF mine = {} THEN os[i]
            ELSE [os[i] EXCEPT !.value = e.resp[g.names[CHOOSE d \in mine : TRUE]]]]

\* Faulty variant: the loop ends at the first batch with a name the store
\* rejects
RECURSIVE BatchLoopEarly(_, _, _, _, _)
BatchLoopEarly(st, g, batches, b, e) ==
    IF b > Len(batches) THEN st
    ELSE IF e.failAt = b
    THEN [st EXCEPT !.calls = Append(@, Call("get_parameters", batches[b], TRUE)),
                    !.exc = "ClientError"]
    ELSE IF InvalidOf(batches[b], e) # <<>>
    THEN [st EXCEPT !.objs = StoreItems(st.objs, g, batches[b], e),
                    !.invalid = @ \o InvalidOf(batches[b], e),
                    !.calls = Append(@, Call("get_parameters", batches[b], FALSE))]
    ELSE BatchLoopEarly(
            [st EXCEPT !.objs = StoreItems(st.objs, g, batches[b], e),
                       !.calls = Append(@, Call("get_parameters", batches[b], FALSE))],
            g, batches, b + 1, e)

\* the loop of SSMParameterGroup._refresh from batch b on; st is the state of
\* the loop: the objects, invalid_names, the calls made, the exception raised
RECURSIVE BatchLoop(_, _, _, _, _)
BatchLoop(st, g, batches, b, e) ==
    IF b > Len(batches) THEN st
    ELSE IF e.failAt = b
    THEN [st EXCEPT !.calls = Append(@, Call("get_parameters", batches[b], TRUE)),
                    !.exc = "ClientError"]
    ELSE BatchLoop(
            [st EXCEPT !.objs = StoreItems(st.objs, g, batches[b], e),
                       !.invalid = @ \o InvalidOf(batches[b], e),
                       !.calls = Append(@, Call("get_parameters", batches[b], FALSE))],
            g, batches, b + 1, e)

\* the end of SSMParameterGroup._refresh: raise InvalidParam(",".join(invalid_names))
EndLoop(st) ==
    [objs |-> st.objs, calls |-> st.calls,
     exc |-> IF st.exc # "none" THEN st.exc
             ELSE IF st.invalid # <<>> THEN "InvalidParam" ELSE "none",
     msg |-> IF st.exc = "none" THEN st.invalid ELSE <<>>]

\* SSMParameterGroup._refresh: the outcome [objs, calls, exc, msg]
GroupInner(os, g, e) ==
    EndLoop(BatchLoop([objs |-> os, invalid |-> <<>>, calls |-> <<>>, exc |-> "none"],
                      g, Batch(MemberNames(os, g), BatchSize), 1, e))

\* the ticks a run spent waiting for the store: e.dt if it called the store
Waited(calls, e) == IF calls = <<>> THEN 0 ELSE e.dt

\* Faulty variant: a refresh that raises forgets the earlier timestamp
MarkOrReset(lrt, exc, t) == IF exc = "none" THEN t ELSE NoneV

\* Refreshable.refresh: the timestamp is written only when _refresh returned
Mark(lrt, exc, t) == IF exc = "none" THEN t ELSE lrt

\* the second statement of Refreshable.refresh on the group, r being the
\* outcome of the first
MarkGroup(r, g, e, t) ==
    [objs |-> r.objs,
     group |-> [g EXCEPT !.lrt = Mark(@, r.exc, t + Waited(r.calls, e))],
     calls |-> r.calls, exc |-> r.exc, msg |-> r.msg]

\* Refreshable.refresh on the group, begun at time t
GroupRefreshR(os, g, e, t) == MarkGroup(GroupInner(os, g, e), g, e, t)

\* ----------------------------------------------------------------- SSMParameter
\* Faulty variant: the value held is dropped when the fetch fails
FetchOneClears(os, g, p, e) ==
    [group |-> g, calls |-> <<Call("get_parameter", <<os[p].name>>, e.failAt = 1)>>]
    @@ IF e.failAt = 1
       THEN [objs |-> [os EXCEPT ![p].value = NoneV], exc |-> "ClientError", msg |-> <<>>]
       ELSE IF e.resp[os[p].name] = 0
       THEN [objs |-> [os EXCEPT ![p].value = NoneV], exc |-> "InvalidParam",
             msg |-> <<os[p].name>>]
       ELSE [objs |-> [os EXCEPT ![p].value = e.resp[os[p].name]],
             exc |-> "none", msg |-> <<>>]

\* the try block of SSMParameter._refresh: get_parameter for one name
FetchOne(os, g, p, e) ==
    [group |-> g, calls |-> <<Call("get_parameter", <<os[p].name>>, e.failAt = 1)>>]
    @@ IF e.failAt = 1
       THEN [objs |-> os, exc |-> "ClientError", msg |-> <<>>]
       ELSE IF e.resp[os[p].name] = 0
       THEN [objs |-> os, exc |-> "InvalidParam", msg |-> <<os[p].name>>]
       ELSE [objs |-> [os EXCEPT ![p].value = e.resp[os[p].name]],
             exc |-> "none", msg |-> <<>>]

\* Faulty variant: a member fetches its own name only
ParamInnerOwn(os, g, p, e, t) == FetchOne(os, g, p, e)

\* SSMParameter._refresh
ParamInner(os, g, p, e, t) ==
    IF os[p].grouped THEN GroupRefreshR(os, g, e, t) ELSE FetchOne(os, g, p, e)

\* the second statement of Refreshable.refresh on parameter p
MarkParam(r, p, e, t) ==
    [r EXCEPT !.objs[p].lrt = Mark(@, r.exc, t + Waited(r.calls, e))]

\* Refreshable.refresh on parameter p, begun at time t
ParamRefreshR(os, g, p, e, t) == MarkParam(ParamInner(os, g, p, e, t), p, e, t)

\* Faulty variant: the policy is not asked
NeedsRefreshUnsetOnly(o, t) == o.value = NoneV

\* Faulty variant: every read refreshes
NeedsRefreshAlways(o, t) == TRUE

\* the condition of SSMParameter.value
NeedsRefresh(o, t) == o.value = NoneV \/ ShouldRefresh(o.max_age, o.lrt, t)

\* the outcome of a run that changes nothing
Hit(os, g) == [objs |-> os, group |-> g, calls |-> <<>>, exc |-> "none", msg |-> <<>>]

\* return self._value
Returned(r, p) == r @@ [ret |-> IF r.exc = "none" THEN r.objs[p].value ELSE NoneV]

\* SSMParameter.value, read at time t: the outcome and the value returned
ValueR(os, g, p, e, t) ==
    Returned(IF NeedsRefresh(os[p], t) THEN ParamRefreshR(os, g, p, e, t)
             ELSE Hit(os, g), p)

\* ------------------------------------------------------------- refresh_on_error
\* Faulty variant: the retry flag is not set
SetRetryNot(kwargs, ra) == kwargs

\* kwargs[retry_argument] = True
SetRetry(kwargs, ra) ==
    [k \in DOMAIN kwargs \cup {ra} |-> IF k = ra THEN 1 ELSE kwargs[k]]

\* the first invocation of func
FirstCall(f) == [args |-> f.args, kwargs |-> f.kwargs]

\* the invocation of func in the except clause
SecondCall(f) == [args |-> f.args, kwargs |-> SetRetry(f.kwargs, f.ra)]

\* Faulty variant: a failure of the forced refresh is swallowed
RetrySwallows(r, f) ==
    [r EXCEPT !.exc = IF f.second = "ok" THEN "none" ELSE "FuncError2"]
    @@ [ret |-> IF f.second = "ok" THEN 2 ELSE NoneV,
        fcalls |-> <<FirstCall(f), SecondCall(f)>>, refreshes |-> 1,
        callbacks |-> IF f.cb THEN 1 ELSE 0]

\* Faulty variant: a second failure is caught and func is invoked once more
RetryAgain(r, f) ==
    IF r.exc # "none"
    THEN r @@ [ret |-> NoneV, fcalls |-> <<FirstCall(f)>>,
               refreshes |-> 1, callbacks |-> 0]
    ELSE [r EXCEPT !.exc = IF f.second = "ok" THEN "none" ELSE "FuncError3"]
         @@ [ret |-> IF f.second = "ok" THEN 2 ELSE NoneV,
             fcalls |-> IF f.second = "ok" THEN <<FirstCall(f), SecondCall(f)>>
                        ELSE <<FirstCall(f), SecondCall(f), SecondCall(f)>>,
             refreshes |-> IF f.second = "ok" THEN 1 ELSE 2,
             callbacks |-> IF f.cb THEN 1 ELSE 0]

\* the except clause of wrapped after self.refresh(), whose outcome is r
Retry(r, f) ==
    IF r.exc # "none"
    THEN r @@ [ret |-> NoneV, fcalls |-> <<FirstCall(f)>>,
               refreshes |-> 1, callbacks |-> 0]
    ELSE [r EXCEPT !.exc = IF f.second = "ok" THEN "none" ELSE "FuncError2"]
         @@ [ret |-> IF f.second = "ok" THEN 2 ELSE NoneV,
             fcalls |-> <<FirstCall(f), SecondCall(f)>>, refreshes |-> 1,
             callbacks |-> IF f.cb THEN 1 ELSE 0]

\* Faulty variant: `except error_class` catches every exception
WrappedRCatchAll(os, g, p, f, e, t) ==
    IF f.first # "ok"
    THEN Retry(ParamRefreshR(os, g, p, e, t), f)
    ELSE Hit(os, g)
         @@ [ret |-> 1, fcalls |-> <<FirstCall(f)>>, refreshes |-> 0, callbacks |-> 0]

\* wrapped(*args, **kwargs) of refresh_on_error, on parameter p. f describes
\* the decorated function and the decoration: f.first is what func does when
\* first invoked ("ok", "match": raises an error_class, "other": raises
\* something else), f.second what it does when invoked again ("ok", "raise"),
\* f.cb whether error_callback is callable, f.ra the retry_argument, f.args
\* and f.kwargs the caller's arguments. func returns the number of its
\* invocation, and raises "FuncError" with that number.
WrappedR(os, g, p, f, e, t) ==
    IF f.first = "match"
    THEN Retry(ParamRefreshR(os, g, p, e, t), f)
    ELSE [Hit(os, g) EXCEPT !.exc = IF f.first = "ok" THEN "none" ELSE "FuncError1"]
         @@ [ret |-> IF f.first = "ok" THEN 1 ELSE NoneV,
             fcalls |-> <<FirstCall(f)>>, refreshes |-> 0, callbacks |-> 0]

\* ------------------------------------------------------------------ the actions
\* the record of a handler run that made no call to the store: the handler,
\* the parameter it ran on, the time and the objects it began with, the
\* store's answers and the decorated function it was given, and its outcome
Quiet(op, p, t) ==
    [op |-> op, p |-> p, t |-> t, pre |-> [objs |-> objs, group |-> group],
     resp |-> <<>>, f |-> <<>>,
     exc |-> "none", msg |-> <<>>, ret |-> NoneV,
     calls |-> <<>>, fcalls |-> <<>>, refreshes |-> 0, callbacks |-> 0]

\* the store's answers for a set of names
Envs(names, maxFail, maxDt) ==
    [resp : [names -> 0..MaxVer], failAt : 0..maxFail,
     dt : 0..Min(maxDt, MaxTime - now)]

\* the names a refresh of p asks the store for
Asked(p) == IF objs[p].grouped THEN Range(group.names) ELSE {objs[p].name}

\* what a caller sees of the outcome r
Observed(r) == [k \in DOMAIN r \ {"objs", "group"} |-> r[k]]

\* the handler run with outcome r ends: its effects and what it returned
Commit(op, p, r, e, f) ==
    /\ objs' = r.objs
    /\ group' = r.group
    /\ now' = now + Waited(r.calls, e)
    /\ last' = Observed(r)
                @@ [resp |-> IF r.calls = <<>> THEN <<>> ELSE e.resp, f |-> f]
                @@ Quiet(op, p, now)
    /\ UNCHANGED thr

\* time passes
Tick ==
    /\ now < MaxTime
    /\ now' = now + 1
    /\ last' = Quiet("tick", 0, now)
    /\ UNCHANGED <<objs, group, thr>>

\* group.parameter(name), and group.parameter(name, max_age=...) when kw
GroupParameter(name, kw) ==
    /\ IF kw
       THEN /\ last' = [Quiet("parameter", 0, now) EXCEPT !.exc = "ValueError"]
            /\ UNCHANGED <<objs, group>>
       ELSE /\ objs' = Append(objs, NewMember(name))
            /\ group' = DictSet(group, name, Len(objs) + 1)
            /\ last' = Quiet("parameter", Len(objs) + 1, now)
    /\ UNCHANGED <<now, thr>>

\* p.value
Value(p, e) == Commit("value", p, ValueR(objs, group, p, e, now), e, <<>>)

\* p.refresh()
Refresh(p, e) == Commit("refresh", p, ParamRefreshR(objs, group, p, e, now), e, <<>>)

\* group.refresh()
GroupRefresh(e) ==
    Commit("group_refresh", 0, GroupRefreshR(objs, group, e, now), e, <<>>)

\* a call of a function decorated with p.refresh_on_error(...)
Wrapped(p, f, e) ==
    Commit("wrapped", p, WrappedR(objs, group, p, f, e, now), e, f)

\* ----------------------------------------------------- one standalone parameter
\* the max_age arguments tried
Ages == {NoneV} \cup 0..MaxAge

\* the decorated functions and decorations tried
\* (what is never read is held fixed: func is not invoked again, and
\* error_callback is not looked at, unless the first invocation raises an
\* error_class)
Funcs ==
    {f \in [first : {"ok", "match", "other"}, second : {"ok", "raise"},
            cb : BOOLEAN, ra : {"is_retry"}, args : {<<7>>},
            kwargs : {<<>>, [k \in {"is_retry"} |-> 0]}] :
        f.first # "match" => f.second = "ok" /\ ~f.cb}

\* the store's answers to a decorated call, should it be asked
WrapEnvs(p, f, maxDt) == Envs(Asked(p), 1, maxDt)

\* either p = SSMParameter(1, max_age), or group = SSMParameterGroup(max_age)
\* and p = group.parameter(1), for some max_age
Init ==
    /\ now = 0
    /\ \E m \in Ages :
          \/ objs = <<NewParameter(1, m)>> /\ group = NewGroup(NoneV)
          \/ objs = <<NewMember(1)>> /\ group = DictSet(NewGroup(m), 1, 1)
    /\ thr = <<>>
    /\ last = Quiet("init", 0, 0)

Next ==
    \/ Tick
    \/ \E p \in DOMAIN objs : \E e \in Envs(Asked(p), 1, 1) : Value(p, e)
    \/ \E p \in DOMAIN objs : \E e \in Envs(Asked(p), 1, 1) : Refresh(p, e)
    \/ \E e \in Envs(Range(group.names), 1, 1) : GroupRefresh(e)

Spec == Init /\ [][Next]_vars

\* ------------------------------------------- one parameter and its decorator
\* the same parameter; functions decorated with p.refresh_on_error(...) are
\* called, and p is refreshed, as time passes
NextWrap ==
    \/ Tick
    \/ \E p \in DOMAIN objs : \E e \in Envs(Asked(p), 1, 0) : Refresh(p, e)
    \/ \E p \in DOMAIN objs : \E f \in Funcs : \E e \in WrapEnvs(p, f, 0) :
          Wrapped(p, f, e)

SpecWrap == Init /\ [][NextWrap]_vars

\* ------------------------------------------------- a group and its parameters
\* the names given to parameters
Names == 1..MaxObjs

\* group = SSMParameterGroup(); its parameters are made as the run goes, and
\* all of the run happens within one tick of the clock
InitGroup ==
    /\ now = 0
    /\ objs = <<>>
    /\ group = NewGroup(NoneV)
    /\ thr = <<>>
    /\ last = Quiet("init", 0, 0)

NextGroup ==
    \/ Len(objs) < MaxObjs /\ \E k \in Names : \E kw \in BOOLEAN : GroupParameter(k, kw)
    \/ \E p \in DOMAIN objs : \E e \in Envs(Asked(p), 1, 0) : Value(p, e)
    \/ \E p \in DOMAIN objs : \E e \in Envs(Asked(p), 1, 0) : Refresh(p, e)
    \/ \E e \in Envs(Range(group.names), 1, 0) : GroupRefresh(e)

SpecGroup == InitGroup /\ [][NextGroup]_vars

\* ------------------------------- a group, its parameters and their decorators
\* the decorated functions tried on a member: called without keyword
\* arguments, and decorated with a callable error_callback
MemberFuncs == {f \in Funcs : f.kwargs = <<>> /\ (f.first = "match" => f.cb)}

\* the same group; functions decorated with p.refresh_on_error(...) of its
\* parameters are called as well
NextMember ==
    \/ Len(objs) < MaxObjs /\ \E k \in Names : \E kw \in BOOLEAN : GroupParameter(k, kw)
    \/ \E p \in DOMAIN objs : \E e \in Envs(Asked(p), 1, 0) : Value(p, e)
    \/ \E p \in DOMAIN objs : \E e \in Envs(Asked(p), 1, 0) : Refresh(p, e)
    \/ \E p \in DOMAIN objs : \E f \in MemberFuncs : \E e \in WrapEnvs(p, f, 0) :
          Wrapped(p, f, e)

SpecMember == InitGroup /\ [][NextMember]_vars

\* ------------------------------------------------------------- a large group
\* the subsets of S with at most k elements
RECURSIVE SubsetsUpTo(_, _)
SubsetsUpTo(S, k) ==
    IF k = 0 THEN {{}}
    ELSE SubsetsUpTo(S, k - 1) \cup {U \cup {x} : U \in SubsetsUpTo(S, k - 1), x \in S}

\* a new group after group.parameter(1), ..., group.parameter(n)
Built(n) ==
    [objs |-> [i \in 1..n |-> NewMember(i)],
     group |-> [NewGroup(NoneV) EXCEPT !.names = [i \in 1..n |-> i],
                                       !.obj = [i \in 1..n |-> i]]]

\* the store's answers to a large group: it does not know a few of the
\* names, and holds values that differ from a name to the next
BatchEnvs ==
    {[resp |-> [k \in Range(group.names) |-> IF k \in U THEN 0 ELSE (k % MaxVer) + 1],
      failAt |-> x, dt |-> 0] :
        U \in SubsetsUpTo(Range(group.names), MaxUnknown),
        x \in 0..Len(Batch(group.names, BatchSize))}

\* a group of n parameters for some n, none fetched yet
InitBatch ==
    /\ now = 0
    /\ \E n \in 0..MaxMembers : objs = Built(n).objs /\ group = Built(n).group
    /\ thr = <<>>
    /\ last = Quiet("init", 0, 0)

\* the first refresh of the group, asked of the group or of its newest member
NextBatch ==
    \/ last.op = "init" /\ \E e \in BatchEnvs : GroupRefresh(e)
    \/ last.op = "init" /\ objs # <<>> /\ \E e \in BatchEnvs : Refresh(Len(objs), e)

SpecBatch == InitBatch /\ [][NextBatch]_vars

\* ------------------------------------------- two threads reading one parameter
\* the threads that call p.value on the one standalone parameter p
Threads == {1, 2}

\* the value p holds from an earlier fetch: none the store returns any more
Stale == MaxVer + 1

\* a thread about to enter p.value: pc is its position, v the value in the
\* response it received, ret what p.value returned to it, exc what p.value
\* raised, calls the get_parameter calls it made
NewThread == [pc |-> "start", v |-> NoneV, ret |-> NoneV, exc |-> "none", calls |-> 0]

\* p = SSMParameter(1, max_age) is stale when the threads arrive: it was
\* never fetched, or it was fetched at time 0 and max_age has passed since
InitConc ==
    /\ \E m \in Ages :
          \/ now = 0 /\ objs = <<NewParameter(1, m)>>
          \/ /\ m > 0 /\ m + 1 <= MaxTime
             /\ now = m + 1
             /\ objs = <<[NewParameter(1, m) EXCEPT !.value = Stale, !.lrt = 0]>>
    /\ group = NewGroup(NoneV)
    /\ thr = [i \in Threads |-> NewThread]
    /\ last = Quiet("init", 0, 0)

\* `self._value is None`, the left operand of the condition of value
TStart(i) ==
    /\ thr[i].pc = "start"
    /\ thr' = [thr EXCEPT ![i].pc = IF objs[1].value = NoneV THEN "fetch" ELSE "policy"]
    /\ UNCHANGED <<now, objs, group, last>>

\* `self._should_refresh()`, the right operand
TPolicy(i) ==
    /\ thr[i].pc = "policy"
    /\ thr' = [thr EXCEPT ![i].pc =
                  IF ShouldRefresh(objs[1].max_age, objs[1].lrt, now)
                  THEN "fetch" ELSE "return"]
    /\ UNCHANGED <<now, objs, group, last>>

\* the get_parameter call of _refresh, from the request to the response or
\* the exception
TFetch(i, e) ==
    /\ thr[i].pc = "fetch"
    /\ LET r == FetchOne(objs, group, 1, e)
       IN  thr' = [thr EXCEPT ![i].calls = @ + Len(r.calls),
                              ![i].exc = r.exc,
                              ![i].v = IF r.exc = "none" THEN r.objs[1].value ELSE NoneV,
                              ![i].pc = IF r.exc = "none" THEN "write" ELSE "raised"]
    /\ now' = now + e.dt
    /\ UNCHANGED <<objs, group, last>>

\* self._value = response['Parameter']['Value']
TWrite(i) ==
    /\ thr[i].pc = "write"
    /\ objs' = [objs EXCEPT ![1].value = thr[i].v]
    /\ thr' = [thr EXCEPT ![i].pc = "mark"]
    /\ UNCHANGED <<now, group, last>>

\* self._last_refresh_time = datetime.utcnow()
TMark(i) ==
    /\ thr[i].pc = "mark"
    /\ objs' = [objs EXCEPT ![1].lrt = Mark(@, thr[i].exc, now)]
    /\ thr' = [thr EXCEPT ![i].pc = "return"]
    /\ UNCHANGED <<now, group, last>>

\* return self._value
TReturn(i) ==
    /\ thr[i].pc = "return"
    /\ thr' = [thr EXCEPT ![i].ret = objs[1].value, ![i].pc = "done"]
    /\ UNCHANGED <<now, objs, group, last>>

NextConc ==
    \/ Tick
    \/ \E i \in Threads : TStart(i)
    \/ \E i \in Threads : TPolicy(i)
    \/ \E i \in Threads : \E e \in Envs({1}, 1, 1) : TFetch(i, e)
    \/ \E i \in Threads : TWrite(i)
    \/ \E i \in Threads : TMark(i)
    \/ \E i \in Threads : TReturn(i)

SpecConc == InitConc /\ [][NextConc]_vars

\* ==================================================================== claims
\* the parameter the last handler ran on, before and after the run
PreObj == last.pre.objs[last.p]
PostObj == objs[last.p]

\* the policy [max_age, lrt] has a window d > 0 that is over at time t
WindowOver(pol, t) == pol.max_age > 0 /\ pol.lrt # NoneV /\ t > pol.lrt + pol.max_age

\* the policy has a window d > 0 that is still open at time t, or has no window
WindowOpen(pol, t) ==
    \/ NoMaxAge(pol.max_age)
    \/ pol.max_age > 0 /\ pol.lrt # NoneV /\ t <= pol.lrt + pol.max_age

\* the query times tried on a policy
Queries == 0..(MaxTime + MaxAge + 1)

\* C1: on a standalone parameter with max_age d > 0, a value read made while
\* the value is unset, or strictly after last_refresh_time + d, calls
\* get_parameter once and, if it returns, returns the value just fetched; and
\* a read that returns hands out a set value refreshed at most d ago.
C1_StaleReadFetches ==
    (last.op = "value" /\ ~PreObj.grouped /\ PreObj.max_age > 0) =>
        /\ (PreObj.value = NoneV \/ PreObj.lrt = NoneV \/ WindowOver(PreObj, last.t)) =>
              /\ Len(last.calls) = 1
              /\ last.calls[1].api = "get_parameter"
              /\ last.calls[1].names = <<PreObj.name>>
              /\ last.exc = "none" => last.ret = last.resp[PreObj.name]
        /\ last.exc = "none" =>
              /\ last.ret # NoneV
              /\ last.ret = PostObj.value
              /\ PostObj.lrt # NoneV
              /\ now <= PostObj.lrt + PreObj.max_age

C1_Witness ==
    /\ last.op = "value" /\ ~PreObj.grouped
    /\ PreObj.value # NoneV /\ WindowOver(PreObj, last.t)
    /\ last.exc = "none" /\ last.ret # PreObj.value

\* C2: on a member of a group with max_age d > 0, a value read made strictly
\* after the group's last refresh time + d refreshes the group (get_parameters)
\* before it returns.
C2_GroupWindowGovernsMember ==
    (last.op = "value" /\ PreObj.grouped /\ WindowOver(last.pre.group, last.t)) =>
        /\ last.calls # <<>>
        /\ \A i \in DOMAIN last.calls : last.calls[i].api = "get_parameters"

\* C3: a refresh that completes marks the policy at the time it completes, and
\* a policy with max_age d > 0 marked at time t answers a query at time q
\* with q > t + d: false up to and at t + d, true strictly after.
C3_WindowAfterMark ==
    /\ (last.op = "refresh" /\ last.exc = "none") => PostObj.lrt = now
    /\ (last.op = "group_refresh" /\ last.exc = "none") => group.lrt = now
    /\ \A p \in DOMAIN objs :
          (objs[p].max_age > 0 /\ objs[p].lrt # NoneV) =>
              \A q \in Queries :
                  ShouldRefresh(objs[p].max_age, objs[p].lrt, q)
                      = (q > objs[p].lrt + objs[p].max_age)
    /\ (group.max_age > 0 /\ group.lrt # NoneV) =>
          \A q \in Queries :
              ShouldRefresh(group.max_age, group.lrt, q)
                  = (q > group.lrt + group.max_age)

C3_Witness ==
    /\ last.op = "tick"
    /\ \E p \in DOMAIN objs :
          /\ objs[p].max_age > 0 /\ objs[p].lrt # NoneV
          /\ now = objs[p].lrt + objs[p].max_age + 1
          /\ ShouldRefresh(objs[p].max_age, objs[p].lrt, now)
          /\ ~ShouldRefresh(objs[p].max_age, objs[p].lrt, now - 1)

\* C4 (as claimed): a policy with max_age unset or zero answers true exactly
\* while no refresh has been marked.
C4_TrueUntilFirstMark ==
    \A p \in DOMAIN objs :
        NoMaxAge(objs[p].max_age) =>
            ShouldRefresh(objs[p].max_age, objs[p].lrt, now) = (objs[p].lrt = NoneV)

\* C4 (amended): a policy with max_age unset or zero answers false to every
\* query, before the first mark as well as after it; a value read of such a
\* standalone parameter calls the store exactly when the value is unset.
C4_NeverDueWithoutMaxAge ==
    /\ \A p \in DOMAIN objs :
          NoMaxAge(objs[p].max_age) =>
              \A q \in Queries : ~ShouldRefresh(objs[p].max_age, objs[p].lrt, q)
    /\ NoMaxAge(group.max_age) =>
          \A q \in Queries : ~ShouldRefresh(group.max_age, group.lrt, q)
    /\ (last.op = "value" /\ ~PreObj.grouped /\ NoMaxAge(PreObj.max_age)) =>
          (last.calls # <<>>) = (PreObj.value = NoneV)

C4_Witness ==
    /\ last.op = "value" /\ ~PreObj.grouped /\ NoMaxAge(PreObj.max_age)
    /\ PreObj.lrt = NoneV /\ last.calls # <<>> /\ last.exc = "none"
    /\ ~ShouldRefresh(PreObj.max_age, PreObj.lrt, last.t)

\* the policy that the spec makes govern the parameter o: the group's for a
\* member, its own otherwise
Governing(o, g) == IF o.grouped THEN [max_age |-> g.max_age, lrt |-> g.lrt]
                   ELSE [max_age |-> o.max_age, lrt |-> o.lrt]

\* C5: a value read of a parameter (standalone or member) that holds a value
\* and is not stale calls the store not at all, returns the value held, and
\* leaves every value and every last_refresh_time as it was.
C5_FreshReadIsPure ==
    (/\ last.op = "value"
     /\ PreObj.value # NoneV
     /\ WindowOpen(Governing(PreObj, last.pre.group), last.t)) =>
        /\ last.calls = <<>>
        /\ last.exc = "none"
        /\ last.ret = PreObj.value
        /\ objs = last.pre.objs
        /\ group = last.pre.group
        /\ now = last.t

C5_Witness ==
    /\ last.op = "value" /\ last.calls = <<>>
    /\ PreObj.value # NoneV /\ PreObj.max_age > 0
    /\ PreObj.lrt = last.t /\ last.ret = PreObj.value

\* the last run refreshed the group, and the store answered every call
GroupAnswered ==
    /\ last.calls # <<>>
    /\ \A i \in DOMAIN last.calls :
          last.calls[i].api = "get_parameters" /\ ~last.calls[i].failed

\* the names of the group, as the last run found it, that the store rejected
Unknown == {k \in Range(last.pre.group.names) : last.resp[k] = 0}

\* C6: after a group refresh that the store answers with values for some
\* members and "unknown" for others, every member it knows holds the value
\* it returned, every member it does not know holds what it held before
\* (a value or None), and InvalidParam is raised naming the unknown names.
C6_PartialRefresh ==
    (GroupAnswered /\ Unknown # {}) =>
        /\ \A d \in DOMAIN last.pre.group.names :
              LET k == last.pre.group.names[d]
                  i == last.pre.group.obj[d]
              IN  objs[i].value = IF last.resp[k] # 0 THEN last.resp[k]
                                  ELSE last.pre.objs[i].value
        /\ last.exc = "InvalidParam"
        /\ Range(last.msg) = Unknown
        /\ Len(last.msg) = Cardinality(Unknown)

C6_Witness ==
    /\ last.op = "group_refresh" /\ GroupAnswered
    /\ \E a, b \in DOMAIN group.names :
          /\ last.resp[group.names[a]] # 0
          /\ last.pre.objs[group.obj[a]].value # NoneV
          /\ objs[group.obj[a]].value # last.pre.objs[group.obj[a]].value
          /\ last.resp[group.names[b]] = 0
          /\ objs[group.obj[b]].value # NoneV
    /\ last.exc = "InvalidParam"

\* ceil(n / 10)
CeilTenth(n) == (n + 9) \div 10

\* C7: a group refresh over n members that the store answers makes exactly
\* ceil(n/10) get_parameters calls and no get_parameter call; each call
\* carries at least 1 and at most 10 names, and every member name goes out
\* in exactly one call (25 members: 3 calls, of 10, 10 and 5 names). If a
\* call fails in transport the refresh stops there, with no more calls than
\* that.
C7_Batches ==
    (last.op \in {"group_refresh", "refresh"}) =>
        LET names == last.pre.group.names
            n == Len(names)
        IN  /\ \A i \in DOMAIN last.calls :
                  /\ last.calls[i].api = "get_parameters"
                  /\ Len(last.calls[i].names) \in 1..10
                  /\ last.calls[i].failed => i = Len(last.calls)
            /\ Len(last.calls) <= CeilTenth(n)
            /\ \A d \in 1..n :
                  Cardinality({c \in DOMAIN last.calls :
                                  \E j \in DOMAIN last.calls[c].names :
                                      last.calls[c].names[j] = names[d]}) <= 1
            /\ (\A i \in DOMAIN last.calls : ~last.calls[i].failed) =>
                  /\ Len(last.calls) = CeilTenth(n)
                  /\ \A d \in 1..n :
                        \E c \in DOMAIN last.calls :
                            Cardinality({j \in DOMAIN last.calls[c].names :
                                            last.calls[c].names[j] = names[d]}) = 1
                  /\ n = 25 => [i \in 1..3 |-> Len(last.calls[i].names)] = <<10, 10, 5>>

C7_Witness ==
    /\ last.op = "group_refresh" /\ GroupAnswered
    /\ Len(last.pre.group.names) = 25
    /\ Len(last.calls) = 3
    /\ Len(last.calls[3].names) = 5

\* C8: when refresh() of a member returns, every parameter registered in the
\* group (the siblings as well as the caller) holds the value the store
\* returned for its name, fetched with get_parameters.
C8_MemberRefreshesAll ==
    (last.op = "refresh" /\ PreObj.grouped /\ last.exc = "none") =>
        /\ GroupAnswered
        /\ \A d \in DOMAIN group.names :
              /\ last.resp[group.names[d]] # 0
              /\ objs[group.obj[d]].value = last.resp[group.names[d]]

C8_Witness ==
    /\ last.op = "refresh" /\ PreObj.grouped /\ last.exc = "none"
    /\ \E d \in DOMAIN group.names :
          /\ group.obj[d] # last.p
          /\ objs[group.obj[d]].name # PreObj.name
          /\ objs[group.obj[d]].value # last.pre.objs[group.obj[d]].value
          /\ last.pre.objs[group.obj[d]].value # NoneV

\* the forced refresh of the last decorated call had nothing to raise: the
\* store answered, and knew every name asked
RefreshClean ==
    /\ \A i \in DOMAIN last.calls : ~last.calls[i].failed
    /\ \A k \in DOMAIN last.resp : last.resp[k] # 0

\* kw is the caller's keyword arguments with the retry flag set
WithFlag(kw, f) ==
    /\ DOMAIN kw = DOMAIN f.kwargs \cup {f.ra}
    /\ kw[f.ra] = 1
    /\ \A k \in DOMAIN f.kwargs \ {f.ra} : kw[k] = f.kwargs[k]

\* C9: a decorated call whose function raises a matching error when first
\* invoked and returns when invoked again, and whose forced refresh
\* completes: the parameter is refreshed exactly once, by a call to the
\* store, stale or not; error_callback (if callable) is invoked exactly once;
\* the function is invoked exactly twice, first with the caller's arguments,
\* then with the same arguments plus the retry flag set; and the call
\* returns what the second invocation returned.
C9_RetryRecovers ==
    (/\ last.op = "wrapped"
     /\ last.f.first = "match" /\ last.f.second = "ok"
     /\ RefreshClean) =>
        /\ last.refreshes = 1
        /\ Len(last.calls) = 1
        /\ PostObj.lrt = now
        /\ last.callbacks = IF last.f.cb THEN 1 ELSE 0
        /\ Len(last.fcalls) = 2
        /\ last.fcalls[1].args = last.f.args
        /\ DOMAIN last.fcalls[1].kwargs = DOMAIN last.f.kwargs
        /\ \A k \in DOMAIN last.f.kwargs : last.fcalls[1].kwargs[k] = last.f.kwargs[k]
        /\ last.fcalls[2].args = last.f.args
        /\ WithFlag(last.fcalls[2].kwargs, last.f)
        /\ last.exc = "none"
        /\ last.ret = 2

C9_Witness ==
    /\ last.op = "wrapped" /\ last.f.first = "match" /\ last.f.second = "ok"
    /\ last.f.cb /\ last.callbacks = 1
    /\ PreObj.value # NoneV /\ PreObj.max_age > 0 /\ WindowOpen(PreObj, last.t)
    /\ Len(last.calls) = 1 /\ last.ret = 2

\* C10: no decorated call invokes its function more than twice; and when the
\* function raises a matching error on both invocations (the forced refresh
\* in between completing), the second error reaches the caller as raised,
\* after exactly one refresh and exactly one invocation of error_callback
\* (if callable).
C10_SecondFailurePropagates ==
    (last.op = "wrapped") =>
        /\ Len(last.fcalls) <= 2
        /\ (last.f.first = "match" /\ last.f.second = "raise" /\ RefreshClean) =>
              /\ last.exc = "FuncError2"
              /\ last.ret = NoneV
              /\ Len(last.fcalls) = 2
              /\ last.refreshes = 1
              /\ Len(last.calls) = 1
              /\ last.callbacks = IF last.f.cb THEN 1 ELSE 0

C10_Witness ==
    /\ last.op = "wrapped" /\ last.f.first = "match" /\ last.f.second = "raise"
    /\ last.f.cb /\ last.callbacks = 1 /\ last.refreshes = 1
    /\ Len(last.fcalls) = 2 /\ last.exc = "FuncError2"

\* C11 (as claimed): a refresh() of a standalone parameter or of the group
\* that raises (InvalidParam for an unknown name, or a transport failure)
\* leaves last_refresh_time equal to the time of that attempt.
C11_FailedRefreshMarks ==
    /\ (last.op = "refresh" /\ ~PreObj.grouped /\ last.exc # "none") =>
          PostObj.lrt \in last.t..now
    /\ (last.op = "group_refresh" /\ last.exc # "none") =>
          group.lrt \in last.t..now

\* the member names of the group, in the order of its dict, that the store
\* rejected in the last run
UnknownSeq == SelectSeq(last.pre.group.names, LAMBDA k : last.resp[k] = 0)

\* C12: a group refresh spanning several batches, all answered by the store,
\* some names being unknown to it: every batch is issued, every member the
\* store knows holds the value it returned, and the one InvalidParam raised
\* after the last batch names every unknown name of every batch, in order.
C12_AllBatchesThenInvalid ==
    (/\ last.op \in {"group_refresh", "refresh"}
     /\ GroupAnswered
     /\ Unknown # {}) =>
        /\ Len(last.calls) = CeilTenth(Len(last.pre.group.names))
        /\ \A d \in DOMAIN last.pre.group.names :
              LET k == last.pre.group.names[d]
              IN  last.resp[k] # 0 => objs[last.pre.group.obj[d]].value = last.resp[k]
        /\ last.exc = "InvalidParam"
        /\ last.msg = UnknownSeq
        /\ group.lrt = last.pre.group.lrt

C12_Witness ==
    /\ last.op = "group_refresh" /\ GroupAnswered
    /\ Len(group.names) = 25
    /\ Len(last.calls) = 3
    /\ last.resp[last.calls[1].names[1]] = 0
    /\ last.resp[last.calls[3].names[1]] = 0
    /\ objs[group.obj[11]].value # NoneV
    /\ objs[group.obj[22]].value # NoneV
    /\ last.exc = "InvalidParam" /\ Len(last.msg) = 2

\* C13 (as claimed): on a standalone parameter with max_age d > 0 that holds
\* a value, after a value read at time t whose refresh attempt failed, a
\* value read made at a time <= t + d calls the store not at all.
C13_NoCallAfterFailedAttempt ==
    [][(/\ last.op = "value"
        /\ ~PreObj.grouped /\ PreObj.value # NoneV /\ PreObj.max_age > 0
        /\ last.calls # <<>> /\ last.exc # "none"
        /\ last'.op = "value" /\ last'.p = last.p
        /\ last'.t <= last.t + PreObj.max_age)
       => last'.calls = <<>>]_vars

\* C14: every parameter made by group.parameter is a member of the group from
\* then on, with no max_age of its own; and whatever it is asked (value,
\* refresh, a decorated call), every call it makes to the store is a
\* get_parameters for the names registered in the group, never a
\* get_parameter, and a refresh that completes marks the group.
C14_MemberNeverFetchesOne ==
    /\ \A p \in DOMAIN objs : objs[p].grouped /\ objs[p].max_age = NoneV
    /\ \A p \in DOMAIN last.pre.objs :
          p \in DOMAIN objs /\ objs[p].grouped = last.pre.objs[p].grouped
    /\ \A i \in DOMAIN last.calls :
          /\ last.calls[i].api = "get_parameters"
          /\ last.calls[i].names = MemberNames(last.pre.objs, last.pre.group)
    /\ (last.op \in {"value", "refresh", "wrapped"} /\ last.calls # <<>>
           /\ \A i \in DOMAIN last.calls : ~last.calls[i].failed
           /\ \A k \in DOMAIN last.resp : last.resp[k] # 0) =>
          group.lrt = now /\ PostObj.lrt = now

C14_Witness ==
    /\ last.op = "wrapped" /\ PreObj.grouped
    /\ Len(last.calls) = 1 /\ last.calls[1].api = "get_parameters"
    /\ Len(last.calls[1].names) = 2
    /\ last.exc = "none"

\* C15: a decorated call whose function raises an error that is not an
\* error_class: that error reaches the caller as raised, the function was
\* invoked once, nothing was refreshed, the store was not called,
\* error_callback was not invoked, and the parameter, the group and the
\* clock are as they were.
C15_OtherErrorPropagates ==
    (last.op = "wrapped" /\ last.f.first = "other") =>
        /\ last.exc = "FuncError1"
        /\ last.ret = NoneV
        /\ last.fcalls = <<FirstCall(last.f)>>
        /\ last.refreshes = 0
        /\ last.callbacks = 0
        /\ last.calls = <<>>
        /\ objs = last.pre.objs
        /\ group = last.pre.group
        /\ now = last.t

C15_Witness ==
    /\ last.op = "wrapped" /\ last.f.first = "other"
    /\ last.exc = "FuncError1" /\ Len(last.fcalls) = 1
    /\ PreObj.value # NoneV /\ objs = last.pre.objs

\* C16: last_refresh_time of a parameter and of the group never lies in the
\* future, never decreases and never returns to unset; and it changes only
\* in a value read or refresh that ran to completion, to the time at which
\* that refresh completed.
C16_LastRefreshMonotone ==
    /\ \A p \in DOMAIN objs :
          /\ objs[p].lrt <= now
          /\ last.pre.objs[p].lrt # NoneV =>
                objs[p].lrt # NoneV /\ objs[p].lrt >= last.pre.objs[p].lrt
          /\ objs[p].lrt # last.pre.objs[p].lrt =>
                /\ last.op \in {"value", "refresh"} /\ last.p = p
                /\ last.exc = "none"
                /\ objs[p].lrt = now
    /\ group.lrt <= now
    /\ last.pre.group.lrt # NoneV =>
          group.lrt # NoneV /\ group.lrt >= last.pre.group.lrt
    /\ group.lrt # last.pre.group.lrt =>
          /\ last.op \in {"value", "refresh", "group_refresh"}
          /\ last.exc = "none"
          /\ group.lrt = now

C16_Witness ==
    /\ last.op = "refresh" /\ last.exc = "none"
    /\ PreObj.lrt # NoneV /\ PostObj.lrt > PreObj.lrt /\ PostObj.lrt = now

\* C17: a value read or refresh of a standalone parameter whose fetch fails,
\* the store not knowing the name (InvalidParam naming it) or the call
\* failing otherwise (that error, as raised): the caller gets the exception,
\* exactly one get_parameter call was made, and the value held is the one
\* held before.
C17_FailedFetchKeepsValue ==
    (/\ last.op \in {"value", "refresh"} /\ ~PreObj.grouped
     /\ last.calls # <<>>
     /\ (last.calls[1].failed \/ last.resp[PreObj.name] = 0)) =>
        /\ last.exc = IF last.calls[1].failed THEN "ClientError" ELSE "InvalidParam"
        /\ last.msg = IF last.calls[1].failed THEN <<>> ELSE <<PreObj.name>>
        /\ last.ret = NoneV
        /\ Len(last.calls) = 1
        /\ last.calls[1].api = "get_parameter"
        /\ last.calls[1].names = <<PreObj.name>>
        /\ PostObj.value = PreObj.value

C17_Witness ==
    /\ last.op = "value" /\ ~PreObj.grouped
    /\ PreObj.value # NoneV /\ last.exc = "InvalidParam"
    /\ Len(last.calls) = 1 /\ PostObj.value = PreObj.value

\* C18: two threads inside value() of one stale standalone parameter, their
\* steps interleaved in any order: a thread that value() returned to was
\* handed a set value that is not the stale one and that the store delivered
\* to one of the two threads after they arrived; and no thread calls the
\* store more than once.
C18_ConcurrentReadsAreFresh ==
    \A i \in DOMAIN thr :
        /\ thr[i].calls <= 1
        /\ thr[i].pc = "done" =>
              /\ thr[i].ret # NoneV
              /\ thr[i].ret # Stale
              /\ \E j \in DOMAIN thr : thr[j].v = thr[i].ret

\* both threads found the parameter stale and fetched (a redundant refresh);
\* one was handed the value the other fetched
C18_Witness ==
    /\ thr # <<>>
    /\ \A i \in Threads : thr[i].pc = "done" /\ thr[i].calls = 1
    /\ thr[1].v # thr[2].v
    /\ thr[1].ret = thr[2].v

\* C19 (as claimed): a value read that returns hands out a set value, and
\* when the read called the store, the value the store returned for the
\* parameter's name.
C19_ReturnedValueIsSet ==
    (last.op = "value" /\ last.exc = "none") =>
        /\ last.ret # NoneV
        /\ last.calls # <<>> => last.ret = last.resp[PreObj.name]

\* C20: a decorated call whose function raises a matching error and whose
\* forced refresh then raises (the store rejects a name asked, or the call
\* to it fails): the caller gets the refresh's exception, error_callback was
\* not invoked, and the function was invoked exactly once.
C20_RefreshFailurePropagates ==
    (last.op = "wrapped" /\ last.f.first = "match" /\ ~RefreshClean) =>
        /\ last.exc = IF \E i \in DOMAIN last.calls : last.calls[i].failed
                      THEN "ClientError" ELSE "InvalidParam"
        /\ last.ret = NoneV
        /\ last.refreshes = 1
        /\ last.callbacks = 0
        /\ last.fcalls = <<FirstCall(last.f)>>

C20_Witness ==
    /\ last.op = "wrapped" /\ last.f.first = "match" /\ last.f.cb
    /\ last.f.second = "ok"
    /\ last.exc = "InvalidParam" /\ last.callbacks = 0
    /\ Len(last.fcalls) = 1 /\ Len(last.calls) = 1

====
